---- MODULE Spec2Model ----
(***************************************************************************)
(* A model of the MCP playground: the command-line client of client.py     *)
(* (main, connect_to_server, chat_loop, process_query, cleanup) and the    *)
(* network tools of the tool server weather.py.                            *)
(*                                                                         *)
(* Strings the code inspects character by character (paths, input lines)   *)
(* are sequences of one-character strings; all other texts are strings.    *)
(***************************************************************************)
EXTENDS Naturals, Sequences, FiniteSets, TLC

\* Largest number of tool calls one model response requests.
MaxToolCalls == 2

\* Largest number of queries the user types in one run of main.
MaxQueries == 2

\* Python's None where the code has an Optional[str]; no text equals it.
None == "<None>"

(***************************************************************************)
(* Python exceptions.  `except Exception` (client.py:148, weather.py:57)   *)
(* catches every exception class but the ones deriving from BaseException  *)
(* only.                                                                   *)
(***************************************************************************)
BaseOnlyExceptions == {"SystemExit", "KeyboardInterrupt"}

IsException(e) == e \notin BaseOnlyExceptions

(***************************************************************************)
(* str.strip(), str.lower(), str.upper(), str.title() and str.endswith()  *)
(* on character sequences.                                                 *)
(***************************************************************************)
Whitespace == {" ", "\t", "\n"}

RECURSIVE LStrip(_)
LStrip(s) ==
  IF s # <<>> /\ Head(s) \in Whitespace THEN LStrip(Tail(s)) ELSE s

RECURSIVE RStrip(_)
RStrip(s) ==
  IF s # <<>> /\ s[Len(s)] \in Whitespace
    THEN RStrip(SubSeq(s, 1, Len(s) - 1))
    ELSE s

Strip(s) == RStrip(LStrip(s))

\* The cased letters of the texts handled here, lowercase and uppercase forms
\* at the same position.
LowerLetters ==
  <<"a", "b", "c", "d", "e", "f", "g", "h", "i", "j", "k", "l", "m", "n",
    "o", "p", "q", "r", "s", "t", "u", "v", "w", "x", "y", "z", "á", "ã",
    "ç", "é", "í", "ô">>

UpperLetters ==
  <<"A", "B", "C", "D", "E", "F", "G", "H", "I", "J", "K", "L", "M", "N",
    "O", "P", "Q", "R", "S", "T", "U", "V", "W", "X", "Y", "Z", "Á", "Ã",
    "Ç", "É", "Í", "Ô">>

LetterIndex(letters, c) == CHOOSE i \in 1..Len(letters) : letters[i] = c

IsLower(c) == \E i \in 1..Len(LowerLetters) : LowerLetters[i] = c

IsUpper(c) == \E i \in 1..Len(UpperLetters) : UpperLetters[i] = c

IsCased(c) == IsLower(c) \/ IsUpper(c)

LowerChar(c) ==
  IF IsUpper(c) THEN LowerLetters[LetterIndex(UpperLetters, c)] ELSE c

UpperChar(c) ==
  IF IsLower(c) THEN UpperLetters[LetterIndex(LowerLetters, c)] ELSE c

Lower(s) == [i \in 1..Len(s) |-> LowerChar(s[i])]

UpperUnchanged(s) == s

Upper(s) == [i \in 1..Len(s) |-> UpperChar(s[i])]

\* str.title(): a cased character is uppercased when the character before it
\* is not cased, lowercased when it is.
Title(s) ==
  [i \in 1..Len(s) |->
     IF i > 1 /\ IsCased(s[i - 1]) THEN LowerChar(s[i]) ELSE UpperChar(s[i])]

\* EndsWith with the suffix looked for anywhere in s.
EndsWithAnywhere(s, suffix) ==
  \E i \in 1..Len(s) :
    /\ i + Len(suffix) - 1 <= Len(s)
    /\ SubSeq(s, i, i + Len(suffix) - 1) = suffix

EndsWith(s, suffix) ==
  /\ Len(s) >= Len(suffix)
  /\ SubSeq(s, Len(s) - Len(suffix) + 1, Len(s)) = suffix

(***************************************************************************)
(* Tool-call argument payloads.  The model API hands the arguments over as *)
(* a serialized string (tool_call.function.arguments); a payload is kept   *)
(* as that text together with the expression tree Python's parser reads    *)
(* from it.                                                                *)
(***************************************************************************)
StrNode(s) == [node |-> "Str", s |-> s]

NameNode(id) == [node |-> "Name", id |-> id]

CallNode(func, arg) == [node |-> "Call", func |-> func, arg |-> arg]

DictNode(key, value) == [node |-> "Dict", key |-> key, value |-> value]

Unparseable == [node |-> "Unparseable"]

\* {"state": "CA"}: JSON, and a Python literal too.
PayloadPlain ==
  [text |-> "{\"state\": \"CA\"}", ast |-> DictNode("state", StrNode("CA"))]

\* {"active": true}: JSON, but `true` is an undefined name in Python.
PayloadJsonTrue ==
  [text |-> "{\"active\": true}", ast |-> DictNode("active", NameNode("true"))]

\* {"state":   a truncated payload, neither JSON nor Python.
PayloadTruncated == [text |-> "{\"state\": ", ast |-> Unparseable]

\* A dict display whose value is a call with a side effect.
PayloadSystem ==
  [text |-> "{\"state\": str(__import__(\"os\").system(\"touch /tmp/x\"))}",
   ast |-> DictNode("state", CallNode("os.system", "touch /tmp/x"))]

\* A bare call that raises SystemExit.
PayloadExit ==
  [text |-> "__import__(\"sys\").exit()", ast |-> CallNode("sys.exit", "")]

ArgPayloads ==
  {PayloadPlain, PayloadJsonTrue, PayloadTruncated, PayloadSystem, PayloadExit}

(***************************************************************************)
(* eval(text), client.py:100.  The result says whether a value or an       *)
(* exception comes out and which calls the evaluation ran on the way       *)
(* (`ran`, the effects on the process and the machine).                    *)
(***************************************************************************)
Value(v, ran) == [kind |-> "value", value |-> v, exc |-> "none", ran |-> ran]

Raised(e, ran) == [kind |-> "raise", value |-> None, exc |-> e, ran |-> ran]

EvalLeaf(e) ==
  CASE e.node = "Str" -> Value(e.s, <<>>)
    [] e.node = "Name" -> Raised("NameError", <<>>)
    [] e.node = "Call" /\ e.func = "sys.exit" ->
         Raised("SystemExit", <<e.func>>)
    [] e.node = "Call" /\ e.func # "sys.exit" -> Value("0", <<e.func>>)
    [] OTHER -> Raised("SyntaxError", <<>>)

Eval(payload) ==
  LET e == payload.ast IN
  IF e.node = "Dict"
    THEN LET v == EvalLeaf(e.value) IN
         IF v.kind = "value"
           THEN Value([k \in {e.key} |-> v.value], v.ran)
           ELSE v
    ELSE EvalLeaf(e)

\* repr() of an evaluated one-entry dict, as the f-string of client.py:104
\* prints it.
Repr(d) ==
  LET k == CHOOSE k \in DOMAIN d : TRUE
  IN  "{'" \o k \o "': '" \o d[k] \o "'}"

(***************************************************************************)
(* What the collaborators can answer.                                      *)
(***************************************************************************)
\* The tools the server registers (weather.py:71,90,126,139).
ServerTools ==
  <<"get_alerts", "get_forecast", "get_south_american_capital",
    "get_us_state_capital">>

\* tool_call.function of a requested call: the tool's name and the
\* serialized arguments.
Function(name, payload) == [name |-> name, arguments |-> payload]

\* The tool names the model asks for in this model.
RequestedNames == {"get_alerts", "get_us_state_capital"}

\* The calls the model asks for in this model.
RequestedFunctions ==
  {Function(n, p) : n \in RequestedNames, p \in ArgPayloads}

\* The identifier the model API gives the k-th tool call it hands out in a
\* query ("call_101", ...); no two calls of a query share one.
CallId(k) == 100 + k

ToolCall(id, function) == [id |-> id, function |-> function]

ToolCallSeqs(n) ==
  {[k \in 1..n |-> ToolCall(CallId(k), f[k])] :
     f \in [1..n -> RequestedFunctions]}

Contents == {"It is sunny."}

AssistantMessage(content, tool_calls) ==
  [role |-> "assistant", content |-> content, tool_calls |-> tool_calls]

\* Answers to the first model call of a query (client.py:79).
FirstResponses ==
  {AssistantMessage(c, <<>>) : c \in Contents \cup {None}}
  \cup UNION {{AssistantMessage(None, s) : s \in ToolCallSeqs(n)} :
                n \in 1..MaxToolCalls}

\* A tool call a follow-up response asks for.
FollowUpCall ==
  ToolCall(CallId(MaxToolCalls + 1), Function("get_forecast", PayloadPlain))

\* Answers to a follow-up model call (client.py:114).
FollowUpResponses ==
  {AssistantMessage(c, <<>>) : c \in Contents}
  \cup {AssistantMessage(c, <<FollowUpCall>>) : c \in Contents \cup {None}}

\* result.content of a successful session.call_tool.
ToolOutputs == {"No active alerts for this state."}

\* Lines the user types (input(), client.py:140).
RawInputs ==
  {<<"h", "i">>, <<" ", "h", "i", "?">>,
   <<"q", "u", "i", "t">>, <<" ", "Q", "u", "i", "T", "\n">>}

\* Server script paths given on the command line (sys.argv[1]).
ScriptPaths ==
  {<<"w", ".", "p", "y">>, <<"s", ".", "j", "s">>,
   <<"s", ".", "s", "h">>, <<"w", ".", "p", "y", "c">>,
   <<"w", ".", "P", "Y">>, <<"p", "y">>}

(***************************************************************************)
(* The tool server, weather.py.  Python values read from a JSON body are   *)
(* tagged with their type; an operation on them gives a value or raises.   *)
(***************************************************************************)
\* Most periods a forecast body lists.
MaxPeriods == 6

PyNone == [t |-> "none"]

PyDict(f) == [t |-> "dict", fields |-> f]

\* {}
EmptyDict == PyDict([k \in {} |-> PyNone])

PyList(items) == [t |-> "list", items |-> items]

PyStr(text) == [t |-> "str", s |-> text]

PyInt(n) == [t |-> "int", n |-> n]

Ok(v) == [ok |-> TRUE, v |-> v, exc |-> "none"]

Err(e) == [ok |-> FALSE, v |-> PyNone, exc |-> e]

\* bool(x)
Truthy(x) ==
  CASE x.t = "none" -> FALSE
    [] x.t = "dict" -> DOMAIN x.fields # {}
    [] x.t = "list" -> Len(x.items) > 0
    [] x.t = "str" -> x.s # ""
    [] x.t = "int" -> x.n # 0

\* key in x, for a string key that is a substring of no string at hand
In(key, x) ==
  CASE x.t = "dict" -> Ok(key \in DOMAIN x.fields)
    [] x.t = "list" -> Ok(\E i \in 1..Len(x.items) : x.items[i] = PyStr(key))
    [] x.t = "str" -> Ok(x.s = key)
    [] OTHER -> Err("TypeError")

\* x[key], for a string key
GetItem(x, key) ==
  CASE x.t = "dict" ->
         IF key \in DOMAIN x.fields THEN Ok(x.fields[key]) ELSE Err("KeyError")
    [] OTHER -> Err("TypeError")

\* str(x), as an f-string formats a value
Str(x) ==
  CASE x.t = "str" -> x.s
    [] x.t = "int" -> ToString(x.n)
    [] x.t = "none" -> "None"
    [] OTHER -> "<object>"

\* props.get(key, default), formatted
GetOr(props, key, default) ==
  IF key \in DOMAIN props.fields THEN Str(props.fields[key]) ELSE default

\* weather.py:46-58.  What a GET can come to: no response in time, no
\* connection, or a response with a status and a body that is JSON or not.
Timeout == [kind |-> "timeout"]

ConnectError == [kind |-> "connect_error"]

HttpResponse(status, is_json, body) ==
  [kind |-> "response", status |-> status, is_json |-> is_json, body |-> body]

make_nws_request(outcome) ==
  IF outcome.kind # "response" THEN PyNone
  ELSE IF outcome.status \notin 200..299 THEN PyNone
  ELSE IF ~outcome.is_json THEN PyNone
  ELSE outcome.body

\* weather.py:60-69.
format_alert(feature) ==
  LET props == GetItem(feature, "properties") IN
  IF ~props.ok THEN props
  ELSE IF props.v.t # "dict" THEN Err("AttributeError")
  ELSE Ok("\nEvent: " \o GetOr(props.v, "event", "Unknown")
          \o "\nArea: " \o GetOr(props.v, "areaDesc", "Unknown")
          \o "\nSeverity: " \o GetOr(props.v, "severity", "Unknown")
          \o "\nDescription: "
          \o GetOr(props.v, "description", "No description available")
          \o "\nInstructions: "
          \o GetOr(props.v, "instruction", "No specific instructions provided")
          \o "\n")

\* [format(item) for item in items]: the results, or the first exception.
RECURSIVE MapAlerts(_)
MapAlerts(items) ==
  IF items = <<>> THEN Ok(<<>>)
  ELSE LET first == format_alert(Head(items)) IN
       IF ~first.ok THEN first
       ELSE LET rest == MapAlerts(Tail(items)) IN
            IF ~rest.ok THEN rest ELSE Ok(<<first.v>> \o rest.v)

\* "\n---\n".join(texts), weather.py:88 and 124.
RECURSIVE JoinBlocks(_)
JoinBlocks(texts) ==
  IF texts = <<>> THEN ""
  ELSE IF Len(texts) = 1 THEN Head(texts)
  ELSE Head(texts) \o "\n---\n" \o JoinBlocks(Tail(texts))

\* weather.py:81-88: get_alerts once the fetch has come back with data.
\* Iterating a dict or a string hands format_alert a string, which it cannot
\* index by name; a number cannot be iterated.
AlertsResult(data) ==
  IF ~Truthy(data) THEN Ok("Unable to fetch alerts or no alerts found.")
  ELSE
    LET has == In("features", data) IN
    IF ~has.ok THEN has
    ELSE IF ~has.v THEN Ok("Unable to fetch alerts or no alerts found.")
    ELSE
      LET features == GetItem(data, "features") IN
      IF ~features.ok THEN features
      ELSE IF ~Truthy(features.v) THEN Ok("No active alerts for this state.")
      ELSE IF features.v.t # "list" THEN Err("TypeError")
      ELSE LET alerts == MapAlerts(features.v.items) IN
           IF ~alerts.ok THEN alerts ELSE Ok(JoinBlocks(alerts.v))

\* weather.py:106: points_data["properties"]["forecast"].
ForecastUrl(points_data) ==
  LET props == GetItem(points_data, "properties") IN
  IF ~props.ok THEN props ELSE GetItem(props.v, "forecast")

\* weather.py:116-121.
FormatPeriod(period) ==
  LET get(key) == GetItem(period, key)
      keys == <<"name", "temperature", "temperatureUnit", "windSpeed",
                "windDirection", "detailedForecast">>
      missing == {i \in 1..Len(keys) : ~get(keys[i]).ok}
  IN
  IF missing # {}
    THEN get(keys[CHOOSE i \in missing : \A j \in missing : i <= j])
    ELSE Ok("\n" \o Str(get("name").v) \o ":\nTemperature: "
            \o Str(get("temperature").v) \o "°"
            \o Str(get("temperatureUnit").v)
            \o "\nWind: " \o Str(get("windSpeed").v) \o " "
            \o Str(get("windDirection").v)
            \o "\nForecast: " \o Str(get("detailedForecast").v) \o "\n")

RECURSIVE MapPeriods(_)
MapPeriods(items) ==
  IF items = <<>> THEN Ok(<<>>)
  ELSE LET first == FormatPeriod(Head(items)) IN
       IF ~first.ok THEN first
       ELSE LET rest == MapPeriods(Tail(items)) IN
            IF ~rest.ok THEN rest ELSE Ok(<<first.v>> \o rest.v)

\* The number of periods shown, weather.py:115.
ShownPeriods == 5

\* periods, unsliced, as the list the loop walks.
FirstPeriodsUnsliced(periods) ==
  CASE periods.t = "list" -> Ok(periods.items)
    [] periods.t = "str" /\ periods.s = "" -> Ok(<<>>)
    [] OTHER -> Err("TypeError")

\* periods[:5], weather.py:115, as the list the loop walks.
FirstPeriods(periods) ==
  CASE periods.t = "list" ->
         Ok(SubSeq(periods.items, 1,
                   IF Len(periods.items) < ShownPeriods
                     THEN Len(periods.items) ELSE ShownPeriods))
    [] periods.t = "str" /\ periods.s = "" -> Ok(<<>>)
    [] OTHER -> Err("TypeError")

\* weather.py:113-124: get_forecast once both fetches have come back.
ForecastResult(forecast_data) ==
  LET props == GetItem(forecast_data, "properties") IN
  IF ~props.ok THEN props
  ELSE
    LET periods == GetItem(props.v, "periods") IN
    IF ~periods.ok THEN periods
    ELSE
      LET shown == FirstPeriods(periods.v) IN
      IF ~shown.ok THEN shown
      ELSE LET forecasts == MapPeriods(shown.v) IN
           IF ~forecasts.ok THEN forecasts ELSE Ok(JoinBlocks(forecasts.v))

(***************************************************************************)
(* The lookup tools of the tool server: their tables and what they return. *)
(***************************************************************************)
\* The tables are dicts: their entries in insertion order.
SOUTH_AMERICAN_CAPITALS ==
  <<
    [key |-> <<"A", "r", "g", "e", "n", "t", "i", "n", "a">>, value |-> "Buenos Aires"],
    [key |-> <<"B", "o", "l", "i", "v", "i", "a">>, value |-> "La Paz"],
    [key |-> <<"B", "r", "a", "s", "i", "l">>, value |-> "Brasília"],
    [key |-> <<"C", "h", "i", "l", "e">>, value |-> "Santiago"],
    [key |-> <<"C", "o", "l", "ô", "m", "b", "i", "a">>, value |-> "Bogotá"],
    [key |-> <<"E", "q", "u", "a", "d", "o", "r">>, value |-> "Quito"],
    [key |-> <<"G", "u", "i", "a", "n", "a">>, value |-> "Georgetown"],
    [key |-> <<"G", "u", "i", "a", "n", "a", " ", "F", "r", "a", "n", "c", "e", "s", "a">>, value |-> "Caiena"],
    [key |-> <<"P", "a", "r", "a", "g", "u", "a", "i">>, value |-> "Assunção"],
    [key |-> <<"P", "e", "r", "u">>, value |-> "Lima"],
    [key |-> <<"S", "u", "r", "i", "n", "a", "m", "e">>, value |-> "Paramaribo"],
    [key |-> <<"U", "r", "u", "g", "u", "a", "i">>, value |-> "Montevidéu"],
    [key |-> <<"V", "e", "n", "e", "z", "u", "e", "l", "a">>, value |-> "Caracas"]
  >>

US_STATE_CAPITALS ==
  <<
    [key |-> <<"A", "L">>, value |-> "Montgomery"],
    [key |-> <<"A", "K">>, value |-> "Juneau"],
    [key |-> <<"A", "Z">>, value |-> "Phoenix"],
    [key |-> <<"A", "R">>, value |-> "Little Rock"],
    [key |-> <<"C", "A">>, value |-> "Sacramento"],
    [key |-> <<"C", "O">>, value |-> "Denver"],
    [key |-> <<"C", "T">>, value |-> "Hartford"],
    [key |-> <<"D", "E">>, value |-> "Dover"],
    [key |-> <<"F", "L">>, value |-> "Tallahassee"],
    [key |-> <<"G", "A">>, value |-> "Atlanta"],
    [key |-> <<"H", "I">>, value |-> "Honolulu"],
    [key |-> <<"I", "D">>, value |-> "Boise"],
    [key |-> <<"I", "L">>, value |-> "Springfield"],
    [key |-> <<"I", "N">>, value |-> "Indianapolis"],
    [key |-> <<"I", "A">>, value |-> "Des Moines"],
    [key |-> <<"K", "S">>, value |-> "Topeka"],
    [key |-> <<"K", "Y">>, value |-> "Frankfort"],
    [key |-> <<"L", "A">>, value |-> "Baton Rouge"],
    [key |-> <<"M", "E">>, value |-> "Augusta"],
    [key |-> <<"M", "D">>, value |-> "Annapolis"],
    [key |-> <<"M", "A">>, value |-> "Boston"],
    [key |-> <<"M", "I">>, value |-> "Lansing"],
    [key |-> <<"M", "N">>, value |-> "Saint Paul"],
    [key |-> <<"M", "S">>, value |-> "Jackson"],
    [key |-> <<"M", "O">>, value |-> "Jefferson City"],
    [key |-> <<"M", "T">>, value |-> "Helena"],
    [key |-> <<"N", "E">>, value |-> "Lincoln"],
    [key |-> <<"N", "V">>, value |-> "Carson City"],
    [key |-> <<"N", "H">>, value |-> "Concord"],
    [key |-> <<"N", "J">>, value |-> "Trenton"],
    [key |-> <<"N", "M">>, value |-> "Santa Fe"],
    [key |-> <<"N", "Y">>, value |-> "Albany"],
    [key |-> <<"N", "C">>, value |-> "Raleigh"],
    [key |-> <<"N", "D">>, value |-> "Bismarck"],
    [key |-> <<"O", "H">>, value |-> "Columbus"],
    [key |-> <<"O", "K">>, value |-> "Oklahoma City"],
    [key |-> <<"O", "R">>, value |-> "Salem"],
    [key |-> <<"P", "A">>, value |-> "Harrisburg"],
    [key |-> <<"R", "I">>, value |-> "Providence"],
    [key |-> <<"S", "C">>, value |-> "Columbia"],
    [key |-> <<"S", "D">>, value |-> "Pierre"],
    [key |-> <<"T", "N">>, value |-> "Nashville"],
    [key |-> <<"T", "X">>, value |-> "Austin"],
    [key |-> <<"U", "T">>, value |-> "Salt Lake City"],
    [key |-> <<"V", "T">>, value |-> "Montpelier"],
    [key |-> <<"V", "A">>, value |-> "Richmond"],
    [key |-> <<"W", "A">>, value |-> "Olympia"],
    [key |-> <<"W", "V">>, value |-> "Charleston"],
    [key |-> <<"W", "I">>, value |-> "Madison"],
    [key |-> <<"W", "Y">>, value |-> "Cheyenne"]
  >>

Keys(table) == [i \in 1..Len(table) |-> table[i].key]

HasKey(table, k) == \E i \in 1..Len(table) : table[i].key = k

Lookup(table, k) == table[CHOOSE i \in 1..Len(table) : table[i].key = k].value

\* ord(c) for the characters of the keys and of the arguments.
CodePoint(c) ==
  CASE c = "\t" -> 9
    [] c = "\n" -> 10
    [] c = " " -> 32
    [] c = "á" -> 225
    [] c = "ã" -> 227
    [] c = "ç" -> 231
    [] c = "é" -> 233
    [] c = "í" -> 237
    [] c = "ô" -> 244
    [] c = "Á" -> 193
    [] c = "Ã" -> 195
    [] c = "Ç" -> 199
    [] c = "É" -> 201
    [] c = "Í" -> 205
    [] c = "Ô" -> 212
    [] IsUpper(c) -> 64 + LetterIndex(UpperLetters, c)
    [] IsLower(c) -> 96 + LetterIndex(LowerLetters, c)

\* a < b for two strings: by code point, a proper prefix first.
RECURSIVE StrLess(_, _)
StrLess(a, b) ==
  IF b = <<>> THEN FALSE
  ELSE IF a = <<>> THEN TRUE
  ELSE IF Head(a) = Head(b) THEN StrLess(Tail(a), Tail(b))
  ELSE CodePoint(Head(a)) < CodePoint(Head(b))

\* One key put in its place in a sorted list, after the keys equal to it.
RECURSIVE Insert(_, _)
Insert(k, sorted) ==
  IF sorted = <<>> THEN <<k>>
  ELSE IF StrLess(k, Head(sorted)) THEN <<k>> \o sorted
  ELSE <<Head(sorted)>> \o Insert(k, Tail(sorted))

SortedAsGiven(keys) == keys

\* sorted(keys)
RECURSIVE Sorted(_)
Sorted(keys) ==
  IF keys = <<>> THEN <<>>
  ELSE Insert(keys[Len(keys)], Sorted(SubSeq(keys, 1, Len(keys) - 1)))

\* The str a character sequence stands for.
RECURSIVE Text(_)
Text(chars) == IF chars = <<>> THEN "" ELSE Head(chars) \o Text(Tail(chars))

\* ', '.join(keys)
RECURSIVE JoinComma(_)
JoinComma(keys) ==
  IF keys = <<>> THEN ""
  ELSE IF Len(keys) = 1 THEN Text(keys[1])
  ELSE Text(keys[1]) \o ", " \o JoinComma(Tail(keys))

\* weather.py:126-137
get_south_american_capital(arg) ==
  LET country == Title(Strip(arg)) IN
  IF ~HasKey(SOUTH_AMERICAN_CAPITALS, country)
    THEN "País não encontrado. Países disponíveis: "
         \o JoinComma(Sorted(Keys(SOUTH_AMERICAN_CAPITALS)))
    ELSE "A capital de " \o Text(country) \o " é "
         \o Lookup(SOUTH_AMERICAN_CAPITALS, country)

\* weather.py:139-150
get_us_state_capital(arg) ==
  LET state == Upper(Strip(arg)) IN
  IF ~HasKey(US_STATE_CAPITALS, state)
    THEN "Estado não encontrado. Estados disponíveis: "
         \o JoinComma(Sorted(Keys(US_STATE_CAPITALS)))
    ELSE "A capital de " \o Text(state) \o " é "
         \o Lookup(US_STATE_CAPITALS, state)

(***************************************************************************)
(* State.                                                                  *)
(***************************************************************************)
VARIABLES
  pc,                \* where main is: the next step of client.py to run
  session,           \* self.session: "unset", "open" once the ClientSession
                     \* context is entered, "initialized" once initialize()
                     \* has returned
  exit_stack,        \* self.exit_stack: the contexts entered, oldest first
  server_params,     \* the StdioServerParameters connect_to_server built and
                     \* launched the server with, NoServerParams before that
  released,          \* the contexts released so far, in release order
  cleanups,          \* how many times cleanup() has run
  exc,               \* the exception propagating out of main's try, or "none"
  queries,           \* how many times process_query has been called
  query,             \* chat_loop's query (input().strip())
  messages,          \* process_query's conversation
  available_tools,   \* process_query's tool list
  assistant_message, \* the first response's message
  response,          \* the latest follow-up response's message
  idx,               \* position of tool_call in assistant_message.tool_calls
  tool_name,         \* process_query's tool_name
  tool_args,         \* process_query's tool_args
  final_text,        \* process_query's accumulated output
  pq,                \* the latest process_query call: "none", "running",
                     \* "returned" or "raised"
  result,            \* what it returned, None when it did not return
  error,             \* what it raised, "none" when it did not raise
  printed,           \* the last line chat_loop printed
  modelRequests,     \* the chat-completion requests of this query, in order
  toolInvocations,   \* the session.call_tool requests of this query, in order
  evalRan,           \* the calls eval() has run in this process
  tool,              \* the tool the server is running, "none" when idle
  tpc,               \* where that tool is
  argument,          \* the str a lookup tool was called with
  url,               \* the URL of the tool's latest fetch
  data,              \* get_alerts' data
  points_data,       \* get_forecast's points_data
  forecast_url,      \* get_forecast's forecast_url
  forecast_data,     \* get_forecast's forecast_data
  toolResult,        \* the text the latest tool call returned, else None
  toolError          \* the exception the latest tool call raised, else "none"

mainVars == <<session, exit_stack, server_params, released, cleanups>>

localVars ==
  <<messages, available_tools, assistant_message, response, idx, tool_name,
    tool_args, final_text>>

logVars == <<modelRequests, toolInvocations>>

clientVars ==
  <<pc, session, exit_stack, server_params, released, cleanups, exc, queries,
    query,
    messages, available_tools, assistant_message, response, idx, tool_name,
    tool_args, final_text, pq, result, error, printed, modelRequests,
    toolInvocations, evalRan>>

serverVars ==
  <<tool, tpc, argument, url, data, points_data, forecast_url, forecast_data,
    toolResult, toolError>>

vars == <<clientVars, serverVars>>

NoMessage == AssistantMessage(None, <<>>)

NoServerParams == [command |-> None, args |-> <<>>]

Init ==
  /\ pc = "connect"
  /\ session = "unset"
  /\ exit_stack = <<>>
  /\ server_params = NoServerParams
  /\ released = <<>>
  /\ cleanups = 0
  /\ exc = "none"
  /\ queries = 0
  /\ query = <<>>
  /\ messages = <<>>
  /\ available_tools = <<>>
  /\ assistant_message = NoMessage
  /\ response = NoMessage
  /\ idx = 0
  /\ tool_name = None
  /\ tool_args = None
  /\ final_text = <<>>
  /\ pq = "none"
  /\ result = None
  /\ error = "none"
  /\ printed = ""
  /\ modelRequests = <<>>
  /\ toolInvocations = <<>>
  /\ evalRan = {}
  /\ tool = "none"
  /\ tpc = "idle"
  /\ argument = <<>>
  /\ url = ""
  /\ data = PyNone
  /\ points_data = PyNone
  /\ forecast_url = PyNone
  /\ forecast_data = PyNone
  /\ toolResult = None
  /\ toolError = "none"

(***************************************************************************)
(* connect_to_server, called from main's try block.                        *)
(***************************************************************************)
\* Where connect_to_server can fail once the extension is accepted.
ConnectFailures == {"stdio_client", "ClientSession", "initialize", "list_tools"}

\* ConnectRaises with connect_to_server called outside the try block.
ConnectRaisesOutsideTry(e) ==
  /\ pc' = "exited"
  /\ exc' = e

\* main, client.py:161-165: an exception of connect_to_server skips chat_loop
\* and reaches the finally block.
ConnectRaises(e) ==
  /\ pc' = "finally"
  /\ exc' = e

\* ConnectToServer without the call of session.initialize().
ConnectToServerWithoutInitialize ==
  /\ pc = "connect"
  /\ \E path \in ScriptPaths, outcome \in ConnectFailures \cup {"ok"} :
       LET is_python == EndsWith(path, <<".", "p", "y">>)
           is_js == EndsWith(path, <<".", "j", "s">>)
       IN
       IF ~(is_python \/ is_js)
         THEN /\ ConnectRaises("ValueError")
              /\ UNCHANGED <<session, exit_stack, server_params, printed>>
         ELSE
           /\ server_params' =
                [command |-> IF is_python THEN "python" ELSE "node",
                 args |-> <<path>>]
           /\ exit_stack' =
                CASE outcome = "stdio_client" -> exit_stack
                  [] outcome = "ClientSession" ->
                       Append(exit_stack, "stdio_client")
                  [] OTHER ->
                       exit_stack \o <<"stdio_client", "ClientSession">>
           /\ session' =
                IF outcome \in {"stdio_client", "ClientSession"}
                  THEN session
                  ELSE "open"
           /\ IF outcome = "ok"
                THEN /\ pc' = "chat_input"
                     /\ printed' = "Connected to server with tools:"
                     /\ UNCHANGED exc
                ELSE /\ ConnectRaises("ConnectError")
                     /\ UNCHANGED printed
  /\ UNCHANGED <<released, cleanups, queries, query, pq, result, error, evalRan>>
  /\ UNCHANGED localVars
  /\ UNCHANGED logVars
  /\ UNCHANGED serverVars

\* client.py:33-60.
ConnectToServer ==
  /\ pc = "connect"
  /\ \E path \in ScriptPaths, outcome \in ConnectFailures \cup {"ok"} :
       LET is_python == EndsWith(path, <<".", "p", "y">>)
           is_js == EndsWith(path, <<".", "j", "s">>)
       IN
       IF ~(is_python \/ is_js)
         THEN /\ ConnectRaises("ValueError")
              /\ UNCHANGED <<session, exit_stack, server_params, printed>>
         ELSE
           /\ server_params' =
                [command |-> IF is_python THEN "python" ELSE "node",
                 args |-> <<path>>]
           /\ exit_stack' =
                CASE outcome = "stdio_client" -> exit_stack
                  [] outcome = "ClientSession" ->
                       Append(exit_stack, "stdio_client")
                  [] OTHER ->
                       exit_stack \o <<"stdio_client", "ClientSession">>
           /\ session' =
                CASE outcome \in {"stdio_client", "ClientSession"} -> session
                  [] outcome = "initialize" -> "open"
                  [] OTHER -> "initialized"
           /\ IF outcome = "ok"
                THEN /\ pc' = "chat_input"
                     /\ printed' = "Connected to server with tools:"
                     /\ UNCHANGED exc
                ELSE /\ ConnectRaises("ConnectError")
                     /\ UNCHANGED printed
  /\ UNCHANGED <<released, cleanups, queries, query, pq, result, error, evalRan>>
  /\ UNCHANGED localVars
  /\ UNCHANGED logVars
  /\ UNCHANGED serverVars

(***************************************************************************)
(* process_query, called from chat_loop's try block.                       *)
(***************************************************************************)
UserMessage(content) == [role |-> "user", content |-> content]

\* ToolResultMessage with the identifier of the batch's first call on every
\* result.
ToolResultMessageFirstId(tool_call, name, content) ==
  [role |-> "tool", tool_call_id |-> CallId(1), name |-> name,
   content |-> content]

\* client.py:106-111.
ToolResultMessage(tool_call, name, content) ==
  [role |-> "tool", tool_call_id |-> tool_call.id, name |-> name,
   content |-> content]

\* client.py:104.
TraceLine(name, args) ==
  "[Calling tool " \o name \o " with args " \o Repr(args) \o "]"

\* The request of openai.chat.completions.create (client.py:79-90, 114-125).
ModelRequest(model, msgs, tools) ==
  [model |-> model, messages |-> msgs, tools |-> tools]

\* Join with every line terminated instead of the lines separated.
RECURSIVE JoinTerminated(_)
JoinTerminated(lines) ==
  IF lines = <<>> THEN ""
  ELSE Head(lines) \o "\n" \o JoinTerminated(Tail(lines))

\* "\n".join(final_text), client.py:131, for a list of strings.
RECURSIVE Join(_)
Join(lines) ==
  IF lines = <<>> THEN ""
  ELSE IF Len(lines) = 1 THEN Head(lines)
  ELSE Head(lines) \o "\n" \o Join(Tail(lines))

\* QueryFails with the output accumulated so far handed back.
QueryFailsWithPartialText(e) ==
  /\ pq' = "raised"
  /\ error' = e
  /\ result' = Join(final_text)
  /\ exc' = e
  /\ pc' = "raise"

\* An exception leaves process_query: nothing is returned, and the exception
\* travels to chat_loop's try block.
QueryFails(e) ==
  /\ pq' = "raised"
  /\ error' = e
  /\ result' = None
  /\ exc' = e
  /\ pc' = "raise"

\* process_query's frame ends with the call: when chat_loop goes on, the
\* locals are gone and the records of the query's requests are closed.
FrameDiscarded ==
  /\ messages' = <<>>
  /\ available_tools' = <<>>
  /\ assistant_message' = NoMessage
  /\ response' = NoMessage
  /\ idx' = 0
  /\ tool_name' = None
  /\ tool_args' = None
  /\ final_text' = <<>>
  /\ modelRequests' = <<>>
  /\ toolInvocations' = <<>>

\* ProcessQueryStart with a system message put ahead of the user message.
ProcessQueryStartWithSystemMessage ==
  /\ pc = "process_query"
  /\ queries' = queries + 1
  /\ messages' =
       <<[role |-> "system", content |-> <<>>], UserMessage(query)>>
  /\ \/ /\ available_tools' = ServerTools
        /\ pq' = "running"
        /\ pc' = "first_model_call"
        /\ UNCHANGED <<exc, result, error>>
     \/ /\ QueryFails("McpError")
        /\ UNCHANGED available_tools
  /\ UNCHANGED <<query, printed, evalRan, assistant_message, response, idx,
                 tool_name, tool_args, final_text>>
  /\ UNCHANGED mainVars
  /\ UNCHANGED logVars
  /\ UNCHANGED serverVars

\* client.py:64-76: the fresh conversation, then session.list_tools().
ProcessQueryStart ==
  /\ pc = "process_query"
  /\ queries' = queries + 1
  /\ messages' = <<UserMessage(query)>>
  /\ \/ /\ available_tools' = ServerTools
        /\ pq' = "running"
        /\ pc' = "first_model_call"
        /\ UNCHANGED <<exc, result, error>>
     \/ /\ QueryFails("McpError")
        /\ UNCHANGED available_tools
  /\ UNCHANGED <<query, printed, evalRan, assistant_message, response, idx,
                 tool_name, tool_args, final_text>>
  /\ UNCHANGED mainVars
  /\ UNCHANGED logVars
  /\ UNCHANGED serverVars

\* client.py:79-97 and 128-129: the first model call and the branch on its
\* tool calls.
FirstModelCall ==
  /\ pc = "first_model_call"
  /\ modelRequests' =
       Append(modelRequests,
              ModelRequest("gpt-4o-mini", messages, available_tools))
  /\ \/ \E r \in FirstResponses :
          /\ assistant_message' = r
          /\ messages' = Append(messages, r)
          /\ IF r.tool_calls # <<>>
               THEN /\ final_text' = <<>>
                    /\ idx' = 1
                    /\ pc' = "eval_args"
               ELSE /\ final_text' = <<r.content>>
                    /\ idx' = 0
                    /\ pc' = "return"
          /\ UNCHANGED <<exc, pq, result, error>>
     \/ /\ QueryFails("APIError")
        /\ UNCHANGED <<assistant_message, messages, final_text, idx>>
  /\ UNCHANGED <<queries, query, printed, evalRan, available_tools, response,
                 tool_name, tool_args, toolInvocations>>
  /\ UNCHANGED mainVars
  /\ UNCHANGED serverVars

\* client.py:98-100: the head of the loop body, up to eval().
EvalArgs ==
  /\ pc = "eval_args"
  /\ LET tool_call == assistant_message.tool_calls[idx]
         v == Eval(tool_call.function.arguments)
     IN
     /\ tool_name' = tool_call.function.name
     /\ evalRan' = evalRan \cup {v.ran[i] : i \in 1..Len(v.ran)}
     /\ IF v.kind = "value"
          THEN /\ tool_args' = v.value
               /\ pc' = "call_tool"
               /\ UNCHANGED <<exc, pq, result, error>>
          ELSE /\ QueryFails(v.exc)
               /\ UNCHANGED tool_args
  /\ UNCHANGED <<queries, query, printed, messages, available_tools,
                 assistant_message, response, idx, final_text>>
  /\ UNCHANGED mainVars
  /\ UNCHANGED logVars
  /\ UNCHANGED serverVars

\* CallTool with the call issued and not awaited: the loop goes on to the
\* next tool call without the result.
CallToolNotAwaited ==
  /\ pc = "call_tool"
  /\ toolInvocations' =
       Append(toolInvocations, [name |-> tool_name, args |-> tool_args])
  /\ final_text' = Append(final_text, TraceLine(tool_name, tool_args))
  /\ IF idx < Len(assistant_message.tool_calls)
       THEN /\ idx' = idx + 1
            /\ pc' = "eval_args"
       ELSE /\ pc' = "model_again"
            /\ UNCHANGED idx
  /\ UNCHANGED <<queries, query, printed, evalRan, available_tools,
                 assistant_message, response, tool_name, tool_args,
                 modelRequests, messages, exc, pq, result, error>>
  /\ UNCHANGED mainVars
  /\ UNCHANGED serverVars

\* client.py:103-111: session.call_tool, the trace line, the tool message.
CallTool ==
  /\ pc = "call_tool"
  /\ toolInvocations' =
       Append(toolInvocations, [name |-> tool_name, args |-> tool_args])
  /\ \/ \E content \in ToolOutputs :
          /\ final_text' = Append(final_text, TraceLine(tool_name, tool_args))
          /\ messages' =
               Append(messages,
                      ToolResultMessage(assistant_message.tool_calls[idx],
                                        tool_name, content))
          /\ pc' = "model_again"
          /\ UNCHANGED <<exc, pq, result, error>>
     \/ /\ QueryFails("McpError")
        /\ UNCHANGED <<final_text, messages>>
  /\ UNCHANGED <<queries, query, printed, evalRan, available_tools,
                 assistant_message, response, idx, tool_name, tool_args,
                 modelRequests>>
  /\ UNCHANGED mainVars
  /\ UNCHANGED serverVars

\* ModelAgain with the follow-up response's tool calls put on the list the
\* loop walks.
ModelAgainNextRound ==
  /\ pc = "model_again"
  /\ modelRequests' =
       Append(modelRequests,
              ModelRequest("gpt-4-turbo-preview", messages, available_tools))
  /\ \/ \E r \in FollowUpResponses :
          /\ response' = r
          /\ final_text' = Append(final_text, r.content)
          /\ assistant_message' =
               [assistant_message EXCEPT !.tool_calls = @ \o r.tool_calls]
          /\ IF idx < Len(assistant_message'.tool_calls)
               THEN /\ idx' = idx + 1
                    /\ pc' = "eval_args"
               ELSE /\ pc' = "return"
                    /\ UNCHANGED idx
          /\ UNCHANGED <<exc, pq, result, error>>
     \/ /\ QueryFails("APIError")
        /\ UNCHANGED <<response, final_text, idx, assistant_message>>
  /\ UNCHANGED <<queries, query, printed, evalRan, messages, available_tools,
                 tool_name, tool_args, toolInvocations>>
  /\ UNCHANGED mainVars
  /\ UNCHANGED serverVars

\* client.py:114-127: the model call inside the loop body, then the next
\* iteration or the end of the loop.
ModelAgain ==
  /\ pc = "model_again"
  /\ modelRequests' =
       Append(modelRequests,
              ModelRequest("gpt-4-turbo-preview", messages, available_tools))
  /\ \/ \E r \in FollowUpResponses :
          /\ response' = r
          /\ final_text' = Append(final_text, r.content)
          /\ IF idx < Len(assistant_message.tool_calls)
               THEN /\ idx' = idx + 1
                    /\ pc' = "eval_args"
               ELSE /\ pc' = "return"
                    /\ UNCHANGED idx
          /\ UNCHANGED <<exc, pq, result, error>>
     \/ /\ QueryFails("APIError")
        /\ UNCHANGED <<response, final_text, idx>>
  /\ UNCHANGED <<queries, query, printed, evalRan, messages, available_tools,
                 assistant_message, tool_name, tool_args, toolInvocations>>
  /\ UNCHANGED mainVars
  /\ UNCHANGED serverVars

\* client.py:131: the join and the return.  str.join raises TypeError on an
\* item that is not a string.
Return ==
  /\ pc = "return"
  /\ IF \E i \in 1..Len(final_text) : final_text[i] = None
       THEN QueryFails("TypeError")
       ELSE /\ result' = Join(final_text)
            /\ pq' = "returned"
            /\ pc' = "print"
            /\ UNCHANGED <<exc, error>>
  /\ UNCHANGED <<queries, query, printed, evalRan>>
  /\ UNCHANGED mainVars
  /\ UNCHANGED localVars
  /\ UNCHANGED logVars
  /\ UNCHANGED serverVars

(***************************************************************************)
(* chat_loop.                                                              *)
(***************************************************************************)
\* client.py:140-145: prompt and read a line; leave on the sentinel, else
\* call process_query.
ReadInput ==
  /\ pc = "chat_input"
  /\ \E raw \in RawInputs :
       LET q == Strip(raw) IN
       /\ query' = q
       /\ IF Lower(q) = <<"q", "u", "i", "t">>
            THEN pc' = "finally"
            ELSE /\ queries < MaxQueries
                 /\ pc' = "process_query"
  /\ printed' = "\nQuery: "
  /\ pq' = "none"
  /\ result' = None
  /\ error' = "none"
  /\ UNCHANGED <<exc, queries, evalRan>>
  /\ UNCHANGED mainVars
  /\ UNCHANGED localVars
  /\ UNCHANGED logVars
  /\ UNCHANGED serverVars

\* input() raises: EOFError at the end of the input, KeyboardInterrupt on ^C.
ReadInputRaises ==
  /\ pc = "chat_input"
  /\ \E e \in {"EOFError", "KeyboardInterrupt"} : exc' = e
  /\ pc' = "raise"
  /\ printed' = "\nQuery: "
  /\ pq' = "none"
  /\ result' = None
  /\ error' = "none"
  /\ UNCHANGED <<queries, query, evalRan>>
  /\ UNCHANGED mainVars
  /\ UNCHANGED localVars
  /\ UNCHANGED logVars
  /\ UNCHANGED serverVars

\* client.py:146: print the response and start the next iteration.
PrintResponse ==
  /\ pc = "print"
  /\ printed' = "\n" \o result
  /\ pc' = "chat_input"
  /\ FrameDiscarded
  /\ UNCHANGED <<exc, queries, query, pq, result, error, evalRan>>
  /\ UNCHANGED mainVars
  /\ UNCHANGED serverVars

\* client.py:139 and 148-149: the try block around one iteration.  An
\* exception that derives from Exception is printed and the loop goes on; any
\* other leaves chat_loop and reaches main's finally block.
ChatLoopExcept ==
  /\ pc = "raise"
  /\ IF IsException(exc)
       THEN /\ printed' = "\nError: " \o exc
            /\ exc' = "none"
            /\ pc' = "chat_input"
       ELSE /\ pc' = "finally"
            /\ UNCHANGED <<exc, printed>>
  /\ FrameDiscarded
  /\ UNCHANGED <<queries, query, pq, result, error, evalRan>>
  /\ UNCHANGED mainVars
  /\ UNCHANGED serverVars

(***************************************************************************)
(* main's finally block: cleanup(), then the process ends.                 *)
(***************************************************************************)
Reverse(s) == [i \in 1..Len(s) |-> s[Len(s) + 1 - i]]

\* client.py:151-153 and 164-165: exit_stack.aclose() releases the contexts
\* in reverse order of entry.  A context whose release raises does not stop
\* the release of the ones entered before it; aclose() then raises the error
\* of the last release that failed.  cleanup() has no handler and main calls
\* it from its finally block, so that error takes the place of the exception
\* main's try block ended with.
Cleanup ==
  /\ pc = "finally"
  /\ cleanups' = cleanups + 1
  /\ released' = released \o Reverse(exit_stack)
  /\ exit_stack' = <<>>
  /\ \E failing \in SUBSET (1..Len(exit_stack)) :
       exc' = IF failing = {} THEN exc ELSE "RuntimeError"
  /\ pc' = "exited"
  /\ UNCHANGED <<session, server_params, queries, query, pq, result, error,
                 printed, evalRan>>
  /\ UNCHANGED localVars
  /\ UNCHANGED logVars
  /\ UNCHANGED serverVars

(***************************************************************************)
(* The network tools of the tool server.                                   *)
(***************************************************************************)
NWS_API_BASE == "https://api.weather.gov"

GoodFeature ==
  PyDict([properties |->
            PyDict([event |-> PyStr("Flood Warning"),
                    areaDesc |-> PyStr("Sacramento"),
                    severity |-> PyStr("Severe")])])

FeatureWithoutProperties == PyDict([id |-> PyStr("urn:oid:1")])

FeatureNullProperties == PyDict([properties |-> PyNone])

Features == {GoodFeature, FeatureWithoutProperties, FeatureNullProperties}

ErrorBody == PyDict([title |-> PyStr("Not Found")])

\* JSON bodies the alerts endpoint can answer with.
AlertBodies ==
  {EmptyDict, ErrorBody, PyNone, PyList(<<>>),
   PyDict([features |-> PyNone]), PyDict([features |-> PyList(<<>>)])}
  \cup {PyDict([features |-> PyList(fs)]) :
          fs \in UNION {[1..n -> Features] : n \in 1..2}}

\* JSON bodies the points endpoint can answer with.
PointsBodies ==
  {EmptyDict, ErrorBody, PyList(<<PyInt(1)>>),
   PyDict([properties |-> PyNone]),
   PyDict([properties |-> PyDict([gridId |-> PyStr("STO")])]),
   PyDict([properties |-> PyDict([forecast |-> PyInt(0)])]),
   PyDict([properties |->
             PyDict([forecast |->
                       PyStr(NWS_API_BASE
                             \o "/gridpoints/STO/41,68/forecast")])])}

Period(name, temperature) ==
  PyDict([name |-> PyStr(name), temperature |-> PyInt(temperature),
          temperatureUnit |-> PyStr("F"), windSpeed |-> PyStr("5 mph"),
          windDirection |-> PyStr("NW"), detailedForecast |-> PyStr("Clear.")])

PeriodWithoutName ==
  PyDict([temperature |-> PyInt(60), temperatureUnit |-> PyStr("F"),
          windSpeed |-> PyStr("5 mph"), windDirection |-> PyStr("NW"),
          detailedForecast |-> PyStr("Clear.")])

Periods == {Period("Tonight", 48), Period("Monday", 71), PeriodWithoutName}

\* JSON bodies the forecast endpoint can answer with.
ForecastBodies ==
  {ErrorBody, PyDict([properties |-> PyDict([units |-> PyStr("us")])]),
   PyDict([properties |-> PyDict([periods |-> PyNone])]),
   PyDict([properties |-> PyDict([periods |-> PyStr("")])])}
  \cup {PyDict([properties |-> PyDict([periods |-> PyList(ps)])]) :
          ps \in UNION {[1..n -> Periods] : n \in 0..MaxPeriods}}

\* What a GET answered with one of `bodies` on success can come to.
FetchOutcomes(bodies) ==
  {Timeout, ConnectError, HttpResponse(404, TRUE, ErrorBody),
   HttpResponse(500, FALSE, PyNone), HttpResponse(200, FALSE, PyNone)}
  \cup {HttpResponse(200, TRUE, b) : b \in bodies}

\* The tool's coroutine ends: with a text, or with an exception.
ToolEnds(r) ==
  /\ toolResult' = IF r.ok THEN r.v ELSE None
  /\ toolError' = r.exc
  /\ tpc' = "done"

\* weather.py:72-79: get_alerts up to its fetch.
CallGetAlerts ==
  /\ tpc = "idle"
  /\ \E state \in {"CA", "NY"} :
       url' = NWS_API_BASE \o "/alerts/active/area/" \o state
  /\ tool' = "get_alerts"
  /\ tpc' = "alerts_fetch"
  /\ toolResult' = None
  /\ toolError' = "none"
  /\ UNCHANGED <<argument, data, points_data, forecast_url, forecast_data>>
  /\ UNCHANGED clientVars

\* weather.py:79-88: the fetch comes back and get_alerts finishes.
GetAlertsFetched ==
  /\ tpc = "alerts_fetch"
  /\ \E outcome \in FetchOutcomes(AlertBodies) :
       /\ data' = make_nws_request(outcome)
       /\ ToolEnds(AlertsResult(data'))
  /\ UNCHANGED <<tool, argument, url, points_data, forecast_url,
                 forecast_data>>
  /\ UNCHANGED clientVars

\* weather.py:91-100: get_forecast up to its first fetch.
CallGetForecast ==
  /\ tpc = "idle"
  /\ \E latitude \in {"38.58"}, longitude \in {"-121.49"} :
       url' = NWS_API_BASE \o "/points/" \o latitude \o "," \o longitude
  /\ tool' = "get_forecast"
  /\ tpc' = "points_fetch"
  /\ toolResult' = None
  /\ toolError' = "none"
  /\ UNCHANGED <<argument, data, points_data, forecast_url, forecast_data>>
  /\ UNCHANGED clientVars

\* weather.py:100-107: the first fetch comes back; get_forecast takes the
\* forecast URL out of it and starts the second fetch.
GetForecastPointsFetched ==
  /\ tpc = "points_fetch"
  /\ \E outcome \in FetchOutcomes(PointsBodies) :
       /\ points_data' = make_nws_request(outcome)
       /\ IF ~Truthy(points_data')
            THEN /\ ToolEnds(Ok("Unable to fetch forecast data for this location."))
                 /\ UNCHANGED <<forecast_url, url>>
            ELSE LET u == ForecastUrl(points_data') IN
                 IF ~u.ok
                   THEN /\ ToolEnds(u)
                        /\ UNCHANGED <<forecast_url, url>>
                   ELSE /\ forecast_url' = u.v
                        /\ url' = Str(u.v)
                        /\ tpc' = "forecast_fetch"
                        /\ UNCHANGED <<toolResult, toolError>>
  /\ UNCHANGED <<tool, argument, data, forecast_data>>
  /\ UNCHANGED clientVars

\* weather.py:107-124: the second fetch comes back and get_forecast
\* finishes.  A forecast URL that is no string makes the GET fail inside
\* make_nws_request's try block.
GetForecastFetched ==
  /\ tpc = "forecast_fetch"
  /\ \E outcome \in IF forecast_url.t = "str"
                      THEN FetchOutcomes(ForecastBodies)
                      ELSE {ConnectError} :
       /\ forecast_data' = make_nws_request(outcome)
       /\ IF ~Truthy(forecast_data')
            THEN ToolEnds(Ok("Unable to fetch detailed forecast."))
            ELSE ToolEnds(ForecastResult(forecast_data'))
  /\ UNCHANGED <<tool, argument, url, data, points_data, forecast_url>>
  /\ UNCHANGED clientVars

\* Arguments the model can pass to a lookup tool.
LookupArguments ==
  {<<>>, <<" ">>,
   <<"C", "A">>, <<"c", "a">>, <<" ", "c", "A", "\n">>, <<"C", " ", "A">>,
   <<"a", "k">>, <<"\t", "A", "k">>, <<"Z", "Z">>, <<"z", "z", " ">>,
   <<"P", "e", "r", "u">>, <<"p", "E", "R", "U", " ">>,
   <<"b", "r", "a", "s", "i", "l">>, <<"B", "R", "A", "S", "I", "L">>,
   <<"b", "r", "a", "z", "i", "l">>,
   <<"c", "o", "l", "ô", "m", "b", "i", "a">>,
   <<" ", "C", "O", "L", "Ô", "M", "B", "I", "A">>,
   <<"g", "u", "i", "a", "n", "a">>,
   <<"g", "u", "i", "a", "n", "a", " ", "f", "r", "a", "n", "c", "e", "s", "a">>,
   <<"G", "U", "I", "A", "N", "A", " ", "F", "R", "A", "N", "C", "E", "S", "A",
     "\n">>}

\* weather.py:126-137: get_south_american_capital, from call to return.
CallGetSouthAmericanCapital ==
  /\ tpc = "idle"
  /\ \E country \in LookupArguments :
       /\ argument' = country
       /\ ToolEnds(Ok(get_south_american_capital(country)))
  /\ tool' = "get_south_american_capital"
  /\ UNCHANGED <<url, data, points_data, forecast_url, forecast_data>>
  /\ UNCHANGED clientVars

\* weather.py:139-150: get_us_state_capital, from call to return.
CallGetUsStateCapital ==
  /\ tpc = "idle"
  /\ \E state \in LookupArguments :
       /\ argument' = state
       /\ ToolEnds(Ok(get_us_state_capital(state)))
  /\ tool' = "get_us_state_capital"
  /\ UNCHANGED <<url, data, points_data, forecast_url, forecast_data>>
  /\ UNCHANGED clientVars

\* The tool's frame ends and the server waits for the next call.
ToolReturns ==
  /\ tpc = "done"
  /\ tpc' = "idle"
  /\ tool' = "none"
  /\ argument' = <<>>
  /\ url' = ""
  /\ data' = PyNone
  /\ points_data' = PyNone
  /\ forecast_url' = PyNone
  /\ forecast_data' = PyNone
  /\ UNCHANGED <<toolResult, toolError>>
  /\ UNCHANGED clientVars

Next ==
  \/ ConnectToServer
  \/ ReadInput
  \/ ReadInputRaises
  \/ ProcessQueryStart
  \/ FirstModelCall
  \/ EvalArgs
  \/ CallTool
  \/ ModelAgain
  \/ Return
  \/ PrintResponse
  \/ ChatLoopExcept
  \/ Cleanup

Spec == Init /\ [][Next]_vars

ToolNext ==
  \/ CallGetAlerts
  \/ GetAlertsFetched
  \/ CallGetForecast
  \/ GetForecastPointsFetched
  \/ GetForecastFetched
  \/ CallGetSouthAmericanCapital
  \/ CallGetUsStateCapital
  \/ ToolReturns

\* The tool server on its own, answering one call after another.
ToolSpec == Init /\ [][ToolNext]_vars

(***************************************************************************)
(* Properties of process_query, chat_loop and main.                        *)
(***************************************************************************)
\* The tool-result messages of a conversation, in order.
IsToolMessage(m) == m.role = "tool"

ToolMessages(msgs) == SelectSeq(msgs, IsToolMessage)

\* How many tool-result messages of msgs answer the call identified by id.
Answers(msgs, id) ==
  Cardinality({j \in 1..Len(msgs) :
                 IsToolMessage(msgs[j]) /\ msgs[j].tool_call_id = id})

\* The query got to the end of its processing and every output line is text.
NothingFailed ==
  /\ pq = "running"
  /\ pc = "return"
  /\ \A i \in 1..Len(final_text) : final_text[i] # None

\* C1: at every model call after the first, every tool call the first
\* response requested has been answered by exactly one tool-result message
\* with its identifier in the conversation sent.
C1_CallsAnsweredBeforeModelCall ==
  \A i \in 2..Len(modelRequests) :
    \A k \in 1..Len(assistant_message.tool_calls) :
      Answers(modelRequests[i].messages, assistant_message.tool_calls[k].id) = 1

\* C2: a query whose first response requests N >= 1 tool calls and in which
\* nothing fails makes 2 model calls, the second with all N results in the
\* conversation.
C2_OneFollowUpModelCall ==
  (NothingFailed /\ assistant_message.tool_calls # <<>>) =>
    /\ Len(modelRequests) = 2
    /\ Len(ToolMessages(modelRequests[2].messages)) =
         Len(assistant_message.tool_calls)

\* C3: evaluating the argument payload of a tool call runs no code.
C3_EvalRunsNoCode == evalRan = {}

\* C4: the tool-result messages appended are those of the requested calls,
\* the k-th with the identifier and name of the k-th call, and once the
\* batch is done there are exactly N of them.
C4_ResultsMatchCallsInOrder ==
  pq = "running" =>
    LET tm == ToolMessages(messages)
        calls == assistant_message.tool_calls
    IN  /\ Len(tm) <= Len(calls)
        /\ \A k \in 1..Len(tm) :
             /\ tm[k].tool_call_id = calls[k].id
             /\ tm[k].name = calls[k].function.name
        /\ pc = "return" => Len(tm) = Len(calls)

C4_Witness ==
  /\ NothingFailed
  /\ Len(assistant_message.tool_calls) = 2
  /\ Len(ToolMessages(messages)) = 2
  /\ assistant_message.tool_calls[1].function.name
       # assistant_message.tool_calls[2].function.name

\* C5: a query whose first response has no tool calls returns that
\* response's text, invokes no tool and makes no second model call.
C5_NoToolCallsReturnsText ==
  (pc \in {"return", "print"} /\ assistant_message.tool_calls = <<>>) =>
    /\ toolInvocations = <<>>
    /\ Len(modelRequests) = 1
    /\ pq = "returned" => result = assistant_message.content

C5_Witness ==
  /\ pq = "returned"
  /\ pc = "print"
  /\ assistant_message.tool_calls = <<>>
  /\ result \in Contents

\* C6: every failure of a process_query call is caught by chat_loop,
\* reported, and followed by reading the next input.
C6_QueryFailureCaught ==
  [][(pc = "raise" /\ pq = "raised") =>
       /\ pc' = "chat_input"
       /\ printed' = "\nError: " \o error]_vars

C9_CleanupExactlyOnce ==
  /\ cleanups <= 1
  /\ pc = "exited" <=> cleanups = 1
  /\ pc = "exited" =>
       /\ exit_stack = <<>>
       /\ released \in {<<>>, <<"stdio_client">>,
                         <<"ClientSession", "stdio_client">>}
  /\ pc # "exited" => released = <<>>

C9_Witness ==
  /\ pc = "exited"
  /\ exc = "SystemExit"
  /\ released = <<"ClientSession", "stdio_client">>

\* The tool calls of the query's first response, as the conversation holds
\* them (client.py:95).
FirstResponseCalls ==
  IF Len(messages) >= 2 THEN messages[2].tool_calls ELSE <<>>

\* C10: only the first response's tool calls are parsed and invoked: the
\* i-th invocation is of the i-th call of the first response, and a call a
\* follow-up response asks for is never invoked.
C10_OneRoundOfToolCalls ==
  pq = "running" =>
    /\ idx <= Len(FirstResponseCalls)
    /\ Len(toolInvocations) <= Len(FirstResponseCalls)
    /\ \A i \in 1..Len(toolInvocations) :
         /\ toolInvocations[i].name = FirstResponseCalls[i].function.name
         /\ toolInvocations[i].name # FollowUpCall.function.name

C10_Witness ==
  /\ pq = "running"
  /\ pc = "return"
  /\ response.tool_calls # <<>>
  /\ Len(toolInvocations) = 1

\* C14: an error raised while cleanup releases the resources is swallowed:
\* the run ends with the outcome it had on entering the finally block, and
\* every context on the exit stack is released.
C14_CleanupErrorsSwallowed ==
  [][pc = "finally" =>
       /\ exc' = exc
       /\ released' = released \o Reverse(exit_stack)
       /\ exit_stack' = <<>>]_vars

\* C15: a query whose first response asks for N >= 1 tool calls and in which
\* nothing fails returns the newline-join of N + 1 entries: the trace lines of
\* the N calls in the order they were asked for, then the text of the one
\* follow-up response.
C15_TraceLinesThenOneAnswer ==
  (pq = "returned" /\ assistant_message.tool_calls # <<>>) =>
    LET calls == assistant_message.tool_calls
        N == Len(calls)
    IN  result =
          Join([i \in 1..(N + 1) |->
                  IF i <= N
                    THEN TraceLine(calls[i].function.name,
                                   toolInvocations[i].args)
                    ELSE response.content])

\* C16: nothing of an earlier query is carried into the next one: the first
\* model call of a process_query call is sent exactly one message, the user
\* message with that query's text, and the accumulated output is empty when
\* the first response comes back (it then holds nothing but that response's
\* text when there are no tool calls).
C16_FreshConversationPerQuery ==
  /\ pc = "first_model_call" =>
       messages = <<[role |-> "user", content |-> query]>>
  /\ Len(modelRequests) >= 1 =>
       /\ modelRequests[1].model = "gpt-4o-mini"
       /\ modelRequests[1].messages = <<[role |-> "user", content |-> query]>>
  /\ (pc = "eval_args" /\ idx = 1) => final_text = <<>>
  /\ (pc = "return" /\ idx = 0) => final_text = <<assistant_message.content>>

\* The second query of a run has made its first model call, after a first
\* query with another text.
C16_Witness ==
  /\ queries = 2
  /\ pq = "running"
  /\ Len(modelRequests) = 1
  /\ pc = "eval_args"
  /\ query = <<"h", "i", "?">>

\* C17: within one process_query call the tool calls and the model calls go
\* out one at a time: a step issues at most one request, and when it issues
\* a tool call or a model call every tool call issued before it has returned
\* and has its tool-result message in the conversation.
C17_OneRequestAtATime ==
  [][/\ Len(toolInvocations') + Len(modelRequests')
          <= Len(toolInvocations) + Len(modelRequests) + 1
     /\ (\/ Len(toolInvocations') > Len(toolInvocations)
         \/ Len(modelRequests') > Len(modelRequests))
        => /\ pq' = "raised" \/ pq' = "running"
           /\ Len(ToolMessages(messages)) = Len(toolInvocations)
           /\ \A k \in 1..Len(toolInvocations) :
                ToolMessages(messages)[k].tool_call_id
                  = assistant_message.tool_calls[k].id]_vars

\* The second tool call of a batch has been issued.
C17_Witness ==
  /\ pq = "running"
  /\ Len(toolInvocations) = 2
  /\ Len(ToolMessages(messages)) = 2
  /\ Len(modelRequests) = 2

\* Where main is inside chat_loop, process_query included.
ChatLoopPcs ==
  {"chat_input", "process_query", "first_model_call", "eval_args",
   "call_tool", "model_again", "return", "print", "raise"}

\* How many times context c is in sequence s.
Count(s, c) == Cardinality({i \in 1..Len(s) : s[i] = c})

\* C18: the process connects to the tool server at most once, and chat_loop,
\* with every list_tools and call_tool of its queries, runs only on a session
\* whose initialize() has returned and that cleanup has not released;
\* chat_loop is never entered after connect_to_server failed.
C18_SessionOpsWithinLifetime ==
  /\ Count(exit_stack \o released, "stdio_client") <= 1
  /\ Count(exit_stack \o released, "ClientSession") <= 1
  /\ pc \in ChatLoopPcs =>
       /\ session = "initialized"
       /\ exit_stack = <<"stdio_client", "ClientSession">>
       /\ released = <<>>
       /\ cleanups = 0
  /\ (queries > 0 \/ toolInvocations # <<>>) => session = "initialized"
  /\ (pc \in {"finally", "exited"} /\ session # "initialized") => queries = 0

\* A query is calling a tool on the session.
C18_Witness ==
  /\ pc = "model_again"
  /\ session = "initialized"
  /\ Len(toolInvocations) = 1
  /\ cleanups = 0

\* The characters of path from its last "." on, <<>> when it has none.
Extension(path) ==
  LET dots == {i \in 1..Len(path) : path[i] = "."} IN
  IF dots = {} THEN <<>>
  ELSE SubSeq(path, CHOOSE i \in dots : \A j \in dots : j <= i, Len(path))

\* C19: connect_to_server launches the server with python for a path whose
\* extension is ".py" and with node for one whose extension is ".js", and
\* launches nothing for any other path: it then raises with nothing on the
\* exit stack and the session unset, and the process ends without having
\* processed a query.
C19_LauncherFromExtension ==
  /\ server_params # NoServerParams =>
       /\ server_params.command \in {"python", "node"}
       /\ Len(server_params.args) = 1
       /\ Extension(server_params.args[1])
            \in {<<".", "p", "y">>, <<".", "j", "s">>}
       /\ server_params.command =
            IF Extension(server_params.args[1]) = <<".", "p", "y">>
              THEN "python"
              ELSE "node"
  /\ (server_params = NoServerParams /\ pc # "connect") =>
       /\ pc \in {"finally", "exited"}
       /\ exc \in {"ValueError", "RuntimeError"}
       /\ exit_stack = <<>>
       /\ released = <<>>
       /\ session = "unset"
       /\ queries = 0
       /\ modelRequests = <<>>
       /\ toolInvocations = <<>>
  /\ (exit_stack # <<>> \/ released # <<>> \/ session # "unset")
       => server_params # NoServerParams

\* A run on a path with another extension has ended with the ValueError,
\* nothing launched.
C19_Witness ==
  /\ pc = "exited"
  /\ server_params = NoServerParams
  /\ exc = "ValueError"
  /\ cleanups = 1

\* The lines that are the sentinel once lower-cased.
QuitSpellings ==
  {<<q, u, i, t>> : q \in {"q", "Q"}, u \in {"u", "U"}, i \in {"i", "I"},
                    t \in {"t", "T"}}

\* C20: chat_loop ends only by reading a line that, trimmed and lower-cased,
\* is "quit"; an exception raised in an iteration, by process_query or by
\* input(), is followed by the next iteration; and the sentinel is never
\* handed to process_query.
C20_LoopEndsOnlyOnSentinel ==
  [][/\ (pc \in ChatLoopPcs /\ pc' \notin ChatLoopPcs) =>
          (pc = "chat_input" /\ query' \in QuitSpellings)
     /\ (pc = "chat_input" /\ query' \in QuitSpellings /\ pc' # "raise")
          => pc' = "finally"
     /\ pc = "raise" => pc' = "chat_input"
     /\ pc' = "process_query" => query' \notin QuitSpellings]_vars

(***************************************************************************)
(* Properties of the tool server.                                          *)
(***************************************************************************)
\* C7: get_alerts and get_forecast never raise, whatever their fetches come
\* to.
C7_NetworkToolsNeverRaise == toolError = "none"


\* t is s with letters changed in case and with whitespace added or removed
\* at its two ends.
SameLetter(a, b) ==
  \/ a = b
  \/ \E i \in 1..Len(LowerLetters) :
       {a, b} = {LowerLetters[i], UpperLetters[i]}

Core(s) ==
  LET inked == {i \in 1..Len(s) : s[i] \notin Whitespace} IN
  IF inked = {} THEN <<>>
  ELSE SubSeq(s, CHOOSE i \in inked : \A j \in inked : i <= j,
                 CHOOSE i \in inked : \A j \in inked : j <= i)

Variant(s, t) ==
  /\ Len(Core(s)) = Len(Core(t))
  /\ \A i \in 1..Len(Core(s)) : SameLetter(Core(s)[i], Core(t)[i])

LookupTools == {"get_south_american_capital", "get_us_state_capital"}

LookupResult(name, arg) ==
  IF name = "get_us_state_capital"
    THEN get_us_state_capital(arg)
    ELSE get_south_american_capital(arg)

LookupTable(name) ==
  IF name = "get_us_state_capital"
    THEN US_STATE_CAPITALS
    ELSE SOUTH_AMERICAN_CAPITALS

\* C11: a lookup tool returns, for the argument it was called with, the text
\* it returns for every variant of that argument that differs only in letter
\* case and in leading or trailing whitespace, on a hit and on a miss.
C11_LookupIgnoresCaseAndPadding ==
  (tpc = "done" /\ tool \in LookupTools) =>
    \A t \in LookupArguments :
      Variant(argument, t) => toolResult = LookupResult(tool, t)

\* A lookup by a lowercase, padded spelling of a key has returned its capital.
C11_Witness ==
  /\ tpc = "done"
  /\ tool = "get_us_state_capital"
  /\ argument = <<" ", "c", "A", "\n">>
  /\ toolResult = "A capital de CA é Sacramento"
  /\ \E t \in LookupArguments \ {argument} : Variant(argument, t)

\* `listing` holds every key of `table` exactly once, smaller keys first.
IsSortedListing(listing, table) ==
  /\ Len(listing) = Len(table)
  /\ \A i \in 1..Len(table) :
       Cardinality({j \in 1..Len(listing) : listing[j] = table[i].key}) = 1
  /\ \A i, j \in 1..Len(listing) : i < j => StrLess(listing[i], listing[j])

MissPrefix(name) ==
  IF name = "get_us_state_capital"
    THEN "Estado não encontrado. Estados disponíveis: "
    ELSE "País não encontrado. Países disponíveis: "

HitText(entry) == "A capital de " \o Text(entry.key) \o " é " \o entry.value

\* C12: a lookup tool called with a spelling of a key returns the text naming
\* that key's capital; called with anything else it returns the text that
\* lists every key of its table once, in sorted order, and that is no text
\* naming a capital.
C12_MissListsKeysHitNamesCapital ==
  (tpc = "done" /\ tool \in LookupTools) =>
    LET table == LookupTable(tool)
        hits == {i \in 1..Len(table) : Variant(argument, table[i].key)}
        listing == Sorted(Keys(table))
    IN  IF hits # {}
          THEN \A i \in hits : toolResult = HitText(table[i])
          ELSE /\ IsSortedListing(listing, table)
               /\ toolResult = MissPrefix(tool) \o JoinComma(listing)
               /\ \A i \in 1..Len(table) : toolResult # HitText(table[i])

\* A lookup of a state code that is not in the table has returned the fifty
\* codes in alphabetical order.
C12_Witness ==
  /\ tpc = "done"
  /\ tool = "get_us_state_capital"
  /\ argument = <<"Z", "Z">>
  /\ toolResult =
       "Estado não encontrado. Estados disponíveis: "
          \o "AK, AL, AR, AZ, CA, CO, CT, DE, FL, GA, "
          \o "HI, IA, ID, IL, IN, KS, KY, LA, MA, MD, "
          \o "ME, MI, MN, MO, MS, MT, NC, ND, NE, NH, "
          \o "NJ, NM, NV, NY, OH, OK, OR, PA, RI, SC, "
          \o "SD, TN, TX, UT, VA, VT, WA, WI, WV, WY"

\* The period list of the forecast body get_forecast fetched, when the body
\* has one.
FetchedPeriods ==
  LET props == GetItem(forecast_data, "properties") IN
  IF ~props.ok THEN Err("KeyError")
  ELSE LET periods == GetItem(props.v, "periods") IN
       IF periods.ok /\ periods.v.t = "list"
         THEN Ok(periods.v.items)
         ELSE Err("TypeError")

\* How many of L periods are shown.
ShownOf(L) == IF L < ShownPeriods THEN L ELSE ShownPeriods

\* C13: when both fetches of get_forecast succeed and the forecast body holds
\* a list of L periods, the tool returns the blocks of exactly min(L, 5)
\* periods: the first ones of the list, in the list's order.
C13_ForecastShowsFirstFive ==
  (/\ tpc = "done"
   /\ tool = "get_forecast"
   /\ FetchedPeriods.ok
   /\ \A i \in 1..ShownOf(Len(FetchedPeriods.v)) :
        FormatPeriod(FetchedPeriods.v[i]).ok)
  => /\ toolError = "none"
     /\ toolResult =
          JoinBlocks([i \in 1..ShownOf(Len(FetchedPeriods.v)) |->
                        FormatPeriod(FetchedPeriods.v[i]).v])

\* get_forecast has returned after fetching a list of more periods than it
\* shows, the last of them different from the ones shown.
C13_Witness ==
  /\ tpc = "done"
  /\ tool = "get_forecast"
  /\ toolError = "none"
  /\ FetchedPeriods.ok
  /\ Len(FetchedPeriods.v) > ShownPeriods
  /\ FetchedPeriods.v[1] # FetchedPeriods.v[2]
  /\ \A i \in 1..ShownPeriods :
       /\ FormatPeriod(FetchedPeriods.v[i]).ok
       /\ FetchedPeriods.v[Len(FetchedPeriods.v)] # FetchedPeriods.v[i]

=============================================================================
